---- MODULE Spec2Model ----
(***************************************************************************)
(* A model of svg_quilter: seam classification and polygon grouping        *)
(* (grouping.py), page nesting (layout.py) and the pipeline driver         *)
(* (main.py).                                                              *)
(*                                                                         *)
(* Geometry is exact integer geometry on a lattice.  A point is <<x, y>>,  *)
(* a polygon is its exterior ring without the closing point, a segment is  *)
(* <<a, b>>.  Areas are kept as twice the area so that they stay integers. *)
(* Index i of a Python list is position i + 1 of the sequence modelling    *)
(* it; index values stored in groups, placements and mappings are the      *)
(* Python (0-based) ones.                                                  *)
(***************************************************************************)
EXTENDS Integers, Sequences, FiniteSets, TLC

VARIABLES
    \* ---- grouping.py ----
    gpc,              \* position inside classify_seams / group_polygons
    polygons,         \* polygons argument
    lines,            \* lines / seams argument
    bounding_box,     \* hull ring, or <<>> for the empty geometry
    seam_orders,      \* dict seam index -> order (a function on its key set)
    current_order,    \* classify_seams: current_order
    polygon_orders,   \* list of polygon_max_seam_order per polygon
    adjacency,        \* dict index -> set of indices
    already_grouped,  \* set of indices
    groups,           \* list of groups
    seeds,            \* history: <<seed, ungrouped set at the choice>> per group
    group_idxs,       \* grow_group_from_seed: group_idxs
    current_shape,    \* grow_group_from_seed: current_shape
    grouped,          \* grow_group_from_seed: grouped
    \* ---- layout.py ----
    lpc,              \* position inside layout_groups
    config,           \* LayoutConfig, lengths in svg units
    seam_allowances,  \* dict group index -> polygon, as the list of its values
    to_pack,          \* result of prepare_packing_inputs
    next_i,           \* index of the for loop over to_pack
    pages,            \* layout_groups: pages
    lg_result,        \* value returned by layout_groups, "none" before return
    lg_error,         \* group indices named by the ValueError raised
    \* ---- main.py ----
    ppc,              \* position inside run_pipeline
    svg,              \* the input file: whether it exists, and the shapes in it
    pconfig,          \* PipelineConfig, lengths in svg units
    state,            \* PipelineState
    png_written,      \* export_png has run
    pdf_written,      \* export_pdf has run
    \* ---- utils.py: remove_collinear_points applied and applied again ----
    rpc,              \* position of the caller
    ring,             \* exterior ring of the polygon given
    tolerance,        \* << numerator, denominator >> of the tol given
    once,             \* ring of the polygon returned by the first call
    twice             \* ring of the polygon returned by the second call

gvars == << gpc, polygons, lines, bounding_box, seam_orders, current_order,
            polygon_orders, adjacency, already_grouped, groups, seeds,
            group_idxs, current_shape, grouped >>

lvars == << lpc, config, seam_allowances, to_pack, next_i, pages, lg_result,
            lg_error >>

pvars == << ppc, svg, pconfig, state, png_written, pdf_written >>

rvars == << rpc, ring, tolerance, once, twice >>

vars == << gvars, lvars, pvars, rvars >>

(***************************************************************************)
(* Bounds of the model.                                                    *)
(***************************************************************************)
MaxPolys == 3
MaxSeams == 4
MaxShapes == 3

(***************************************************************************)
(* Integer helpers.                                                        *)
(***************************************************************************)
Abs(x) == IF x < 0 THEN -x ELSE x

Min2(a, b) == IF a <= b THEN a ELSE b

Max2(a, b) == IF a >= b THEN a ELSE b

RECURSIVE SumSeq(_)
SumSeq(s) == IF s = << >> THEN 0 ELSE Head(s) + SumSeq(Tail(s))

RECURSIVE SetToSeq(_)
SetToSeq(S) ==
    IF S = {} THEN << >>
    ELSE LET x == CHOOSE y \in S : TRUE IN << x >> \o SetToSeq(S \ {x})

Range(s) == { s[i] : i \in 1..Len(s) }

(***************************************************************************)
(* Geometry kernel (shapely) on the lattice.                               *)
(***************************************************************************)
\* (b - a) x (c - a)
Cross(a, b, c) == (b[1] - a[1]) * (c[2] - a[2]) - (b[2] - a[2]) * (c[1] - a[1])

\* c lies in the bounding rectangle of a and b
InBox(a, b, c) ==
    /\ Min2(a[1], b[1]) <= c[1] /\ c[1] <= Max2(a[1], b[1])
    /\ Min2(a[2], b[2]) <= c[2] /\ c[2] <= Max2(a[2], b[2])

OnSegment(a, b, c) == Cross(a, b, c) = 0 /\ InBox(a, b, c)

Sign(x) == IF x > 0 THEN 1 ELSE IF x < 0 THEN -1 ELSE 0

\* LineString.intersects for two 2-point line strings (closed segments)
SegIntersects(s, t) ==
    LET a == s[1]  b == s[2]  c == t[1]  d == t[2]
        d1 == Sign(Cross(a, b, c))
        d2 == Sign(Cross(a, b, d))
        d3 == Sign(Cross(c, d, a))
        d4 == Sign(Cross(c, d, b))
    IN  \/ (d1 * d2 < 0 /\ d3 * d4 < 0)
        \/ OnSegment(a, b, c) \/ OnSegment(a, b, d)
        \/ OnSegment(c, d, a) \/ OnSegment(c, d, b)

\* the edges of a ring: zip(coords[:-1], coords[1:]) of the closed ring
RingEdges(r) ==
    [ i \in 1..Len(r) |-> << r[i], r[(i % Len(r)) + 1] >> ]

\* twice the signed area of a ring (shoelace)
SignedArea2(r) ==
    SumSeq([ i \in 1..Len(r) |->
        r[i][1] * r[(i % Len(r)) + 1][2] - r[(i % Len(r)) + 1][1] * r[i][2] ])

\* twice Polygon.area
Area2(r) == Abs(SignedArea2(r))

\* point in the closed region of a simple ring (boundary included)
PointInRing(p, r) ==
    LET E == RingEdges(r)
        onB == \E i \in 1..Len(E) : OnSegment(E[i][1], E[i][2], p)
        up(e) == e[1][2] <= p[2] /\ p[2] < e[2][2] /\ Cross(e[1], e[2], p) > 0
        dn(e) == e[2][2] <= p[2] /\ p[2] < e[1][2] /\ Cross(e[1], e[2], p) < 0
        cnt == Cardinality({ i \in 1..Len(E) : up(E[i]) \/ dn(E[i]) })
    IN  onB \/ (cnt % 2 = 1)

\* Polygon.intersects for two simple polygons: touching or overlapping
PolyIntersects(p, q) ==
    LET E == RingEdges(p)
        F == RingEdges(q)
    IN  \/ \E i \in 1..Len(E), j \in 1..Len(F) : SegIntersects(E[i], F[j])
        \/ PointInRing(p[1], q)
        \/ PointInRing(q[1], p)

\* the directed edges of the convex hull of a finite point set, counter-
\* clockwise, with no collinear interior points
HullEdges(S) ==
    { e \in S \X S :
        /\ e[1] # e[2]
        /\ \A r \in S : Cross(e[1], e[2], r) >= 0
        /\ \A r \in S : Cross(e[1], e[2], r) = 0 => InBox(e[1], e[2], r) }

RECURSIVE SumEdges(_)
SumEdges(H) ==
    IF H = {} THEN 0
    ELSE LET e == CHOOSE f \in H : TRUE
         IN  (e[1][1] * e[2][2] - e[2][1] * e[1][2]) + SumEdges(H \ {e})

\* twice the area of the convex hull of a point set
HullArea2(S) == SumEdges(HullEdges(S))

\* lexicographically least point
MinPoint(S) ==
    CHOOSE p \in S : \A q \in S : p[1] < q[1] \/ (p[1] = q[1] /\ p[2] <= q[2])

RECURSIVE HullWalk(_, _, _)
HullWalk(H, p, n) ==
    IF n = 0 THEN << >>
    ELSE LET e == CHOOSE f \in H : f[1] = p IN << p >> \o HullWalk(H, e[2], n - 1)

\* geometry.convex_hull as a ring; <<>> when the hull is not a polygon
ConvexHullRing(S) ==
    LET H == HullEdges(S)
    IN  IF Cardinality(H) < 3 THEN << >>
        ELSE HullWalk(H, MinPoint({ e[1] : e \in H }), Cardinality(H))

Vertices(r) == Range(r)

(***************************************************************************)
(* utils.collinear and grouping.py: seam classification.                   *)
(***************************************************************************)
TauOrder == 10

MaxOrder == 10

\* collinear(a, b, p, tol): p lies on the line through a and b within tol
collinear(a, b, p, tol) == Abs(Cross(a, b, p)) < tol

seam_is_collinear_with_bbox_edge(seam, bbox, tol) ==
    \E k \in 1..Len(bbox) :
        LET edge == RingEdges(bbox)[k]
        IN  /\ collinear(edge[1], edge[2], seam[1], tol)
            /\ collinear(edge[1], edge[2], seam[2], tol)

\* dict helpers: a dict is a function on its key set
Keys(d) == DOMAIN d

DictPut(d, k, v) == [ x \in (DOMAIN d) \cup {k} |-> IF x = k THEN v ELSE d[x] ]

EmptyDict == [ x \in {} |-> 0 ]

\* first loop of classify_seams, seams i, i+1, ... n-1
RECURSIVE Order0Pass(_, _, _, _, _)
Order0Pass(so, seams, bbox, tol, i) ==
    IF i >= Len(seams) THEN so
    ELSE IF seam_is_collinear_with_bbox_edge(seams[i + 1], bbox, tol)
         THEN Order0Pass(DictPut(so, i, 0), seams, bbox, tol, i + 1)
         ELSE Order0Pass(so, seams, bbox, tol, i + 1)

\* the sum without its filter  if order == 0
crosses_edge_any_order(so, seams, i) ==
    Cardinality({ j \in Keys(so) : SegIntersects(seams[i + 1], seams[j + 1]) })

\* sum(seam.intersects(seams[j]) for j, order in seam_orders.items() if order == 0)
crosses_edge(so, seams, i) ==
    Cardinality({ j \in Keys(so) :
        so[j] = 0 /\ SegIntersects(seams[i + 1], seams[j + 1]) })

\* second loop of classify_seams
RECURSIVE Order1Pass(_, _, _)
Order1Pass(so, seams, i) ==
    IF i >= Len(seams) THEN so
    ELSE IF i \in Keys(so) THEN Order1Pass(so, seams, i + 1)
    ELSE IF crosses_edge(so, seams, i) = 2
         THEN Order1Pass(DictPut(so, i, 1), seams, i + 1)
         ELSE Order1Pass(so, seams, i + 1)

\* any(seam.intersects(seams[j]) for j, order in ... if order == current_order - 1)
crosses_prev(so, seams, i, order) ==
    \E j \in Keys(so) :
        so[j] = order - 1 /\ SegIntersects(seams[i + 1], seams[j + 1])

\* the for loop inside the while loop of classify_seams
RECURSIVE HigherPass(_, _, _, _)
HigherPass(so, seams, order, i) ==
    IF i >= Len(seams) THEN so
    ELSE IF i \in Keys(so) THEN HigherPass(so, seams, order, i + 1)
    ELSE IF crosses_prev(so, seams, i, order)
         THEN HigherPass(DictPut(so, i, order), seams, order, i + 1)
         ELSE HigherPass(so, seams, order, i + 1)

\* classify_seams up to the end of the order-0 loop.  bbox.exterior raises
\* AttributeError when the bounding geometry is empty and a seam is tested.
CsOrder0 ==
    /\ gpc = "cs_order0"
    /\ bounding_box # << >> \/ lines = << >>
    /\ seam_orders' = Order0Pass(EmptyDict, lines, bounding_box, TauOrder, 0)
    /\ gpc' = "cs_order1"
    /\ UNCHANGED << polygons, lines, bounding_box, current_order, polygon_orders,
                    adjacency, already_grouped, groups, seeds, group_idxs,
                    current_shape, grouped >>
    /\ UNCHANGED << lvars, pvars, rvars >>

CsOrder1 ==
    /\ gpc = "cs_order1"
    /\ seam_orders' = Order1Pass(seam_orders, lines, 0)
    /\ current_order' = 2
    /\ gpc' = "cs_higher"
    /\ UNCHANGED << polygons, lines, bounding_box, polygon_orders,
                    adjacency, already_grouped, groups, seeds, group_idxs,
                    current_shape, grouped >>
    /\ UNCHANGED << lvars, pvars, rvars >>

\* a loop without the cap
cap_ignored(order) == FALSE

\* if current_order > 10: break
cap_reached(order) == order > MaxOrder

\* one iteration of the while loop
CsHigherRound ==
    /\ gpc = "cs_higher"
    /\ Cardinality(Keys(seam_orders)) < Len(lines)
    /\ seam_orders' = HigherPass(seam_orders, lines, current_order, 0)
    /\ current_order' = current_order + 1
    /\ gpc' = IF cap_reached(current_order + 1) THEN "cs_done" ELSE "cs_higher"
    /\ UNCHANGED << polygons, lines, bounding_box, polygon_orders,
                    adjacency, already_grouped, groups, seeds, group_idxs,
                    current_shape, grouped >>
    /\ UNCHANGED << lvars, pvars, rvars >>

\* the while condition fails: return seam_orders
CsReturn ==
    /\ gpc = "cs_higher"
    /\ Cardinality(Keys(seam_orders)) >= Len(lines)
    /\ gpc' = "cs_done"
    /\ UNCHANGED << polygons, lines, bounding_box, seam_orders, current_order,
                    polygon_orders, adjacency, already_grouped, groups, seeds,
                    group_idxs, current_shape, grouped >>
    /\ UNCHANGED << lvars, pvars, rvars >>

(***************************************************************************)
(* Inputs of the seam classifier.                                          *)
(***************************************************************************)
SeamCatalogue ==
    { << <<0, 0>>, <<8, 0>> >>,     \* bottom edge of the diagram
      << <<0, 8>>, <<8, 8>> >>,     \* top edge
      << <<0, 0>>, <<0, 8>> >>,     \* left edge
      << <<4, 0>>, <<4, 8>> >>,     \* vertical seam through the middle
      << <<0, 4>>, <<4, 4>> >>,     \* horizontal seam, left edge to the middle
      << <<4, 4>>, <<8, 0>> >> }    \* diagonal seam, middle to a corner

SquareBox == << <<0, 0>>, <<8, 0>>, <<8, 8>>, <<0, 8>> >>

TriangleBox == << <<0, 0>>, <<8, 0>>, <<0, 8>> >>

SeqsUpTo(S, n) == UNION { [ 1..k -> S ] : k \in 0..n }

\* the four boundary edges of SquareBox and the diagonal that splits it into
\* two triangles
CrossSquareSeams ==
    { << <<0, 0>>, <<8, 0>> >>, << <<8, 0>>, <<8, 8>> >>,
      << <<0, 8>>, <<8, 8>> >>, << <<0, 0>>, <<0, 8>> >>,
      << <<0, 0>>, <<8, 8>> >> }

\* the five segments in every order of the list
CrossSeamInputs ==
    { s \in [ 1..5 -> CrossSquareSeams ] : \A i, j \in 1..5 : i # j => s[i] # s[j] }

\* layout_groups has not returned; after the return, its value
NotReturned == [ returned |-> FALSE, pages |-> << >> ]

Returned(p) == [ returned |-> TRUE, pages |-> p ]

\* the nesting engine is not in use
NoLayoutState ==
    /\ lpc = "idle"
    /\ config = << >>
    /\ seam_allowances = << >>
    /\ to_pack = << >>
    /\ next_i = 0
    /\ pages = << >>
    /\ lg_result = NotReturned
    /\ lg_error = {}

\* PipelineState(svg_file=...): every other field is None
InitialState ==
    [ parsed |-> FALSE, colors |-> FALSE, groups |-> FALSE, labels |-> FALSE,
      seam_allowances |-> << >>, has_seam_allowances |-> FALSE,
      pages |-> << >>, has_pages |-> FALSE ]

\* remove_collinear_points is not called on its own
NoReduceState ==
    /\ rpc = "idle"
    /\ ring = << >>
    /\ tolerance = << >>
    /\ once = << >>
    /\ twice = << >>

\* run_pipeline is not in use
NoPipelineState ==
    /\ ppc = "idle"
    /\ svg = << >>
    /\ pconfig = << >>
    /\ state = InitialState
    /\ png_written = FALSE
    /\ pdf_written = FALSE

\* group_polygons is not in use
NoGroupState ==
    /\ polygons = << >>
    /\ polygon_orders = << >>
    /\ adjacency = EmptyDict
    /\ already_grouped = {}
    /\ groups = << >>
    /\ seeds = << >>
    /\ group_idxs = << >>
    /\ current_shape = << >>
    /\ grouped = {}

InitSeams ==
    /\ gpc = "cs_order0"
    /\ lines \in SeqsUpTo(SeamCatalogue, MaxSeams) \cup CrossSeamInputs
    /\ bounding_box \in { SquareBox, TriangleBox }
    /\ seam_orders = EmptyDict
    /\ current_order = 0
    /\ NoGroupState
    /\ NoLayoutState
    /\ NoPipelineState
    /\ NoReduceState

NextSeams == CsOrder0 \/ CsOrder1 \/ CsHigherRound \/ CsReturn

SpecSeams == InitSeams /\ [][NextSeams]_vars

\* classify_seams is straight-line code on one thread: it takes its next
\* step whenever it has one
SpecSeamsFair == InitSeams /\ [][NextSeams]_vars /\ WF_vars(NextSeams)

(***************************************************************************)
(* grouping.py: adjacency, shared edges, concavity, polygon seam order.    *)
(***************************************************************************)
polygon_area(poly) == Area2(poly)

polygons_are_adjacent(p1, p2) == PolyIntersects(p1, p2)

\* only the first of the two add calls
AddPairOneWay(adj, i, j) == [ adj EXCEPT ![i] = @ \cup {j} ]

\* adjacency[i].add(j); adjacency[j].add(i)
AddPair(adj, i, j) == [ adj EXCEPT ![i] = @ \cup {j}, ![j] = @ \cup {i} ]

\* the double loop of build_polygon_adjacency from the pair (i, j) on
RECURSIVE AdjacencyLoop(_, _, _, _)
AdjacencyLoop(adj, polys, i, j) ==
    IF i >= Len(polys) THEN adj
    ELSE IF j >= Len(polys) THEN AdjacencyLoop(adj, polys, i + 1, i + 2)
    ELSE IF polygons_are_adjacent(polys[i + 1], polys[j + 1])
         THEN AdjacencyLoop(AddPair(adj, i, j), polys, i, j + 1)
         ELSE AdjacencyLoop(adj, polys, i, j + 1)

build_polygon_adjacency(polys) ==
    AdjacencyLoop([ i \in 0..(Len(polys) - 1) |-> {} ], polys, 0, 1)

\* np.allclose(a, b, atol=tol) on lattice points, tol < 1
coords_equal(a, b) == a = b

\* matches == 1 over all pairs of an edge of poly1 and an edge of poly2
find_exact_full_shared_edge(poly1, poly2) ==
    LET E == RingEdges(poly1)
        F == RingEdges(poly2)
        matches == Cardinality({ ij \in (1..Len(E)) \X (1..Len(F)) :
            \/ (coords_equal(E[ij[1]][1], F[ij[2]][2]) /\ coords_equal(E[ij[1]][2], F[ij[2]][1]))
            \/ (coords_equal(E[ij[1]][1], F[ij[2]][1]) /\ coords_equal(E[ij[1]][2], F[ij[2]][2])) })
    IN  matches = 1

\* current_shape.union(neighbor_poly) for two polygons with disjoint
\* interiors: the vertices of both and the sum of the areas
PolyUnion(p, q) == [ pts |-> Vertices(p) \cup Vertices(q), area2 |-> Area2(p) + Area2(q) ]

ConcaveTolInv == 100

\* is_concave(polygon, tol = 1e-2): (convex.area / polygon.area - 1) > tol
is_concave(g) ==
    LET convex == HullArea2(g.pts)
    IN  IF convex < g.area2 THEN FALSE
        ELSE ConcaveTolInv * (convex - g.area2) > g.area2

CollinearTolInv == 100

RingOf(pairs) == [ i \in 1..Len(pairs) |-> pairs[i][2] ]

\* the list  result  of remove_collinear_points(poly, tol) for the ring
\* coords of poly and the tolerance t[1] / t[2]
remove_collinear_points_tol(coords, t) ==
    LET n == Len(coords)
        prev(i) == coords[IF i = 1 THEN n ELSE i - 1]
        nxt(i) == coords[(i % n) + 1]
        isCollinear(i) == t[2] * Abs(Cross(prev(i), coords[i], nxt(i))) < t[1]
    IN  IF n <= 3 THEN coords
        ELSE RingOf(SelectSeq([ i \in 1..n |-> << i, coords[i] >> ],
                              LAMBDA e : ~isCollinear(e[1])))

\* remove_collinear_points(poly) with tol = 1e-2, on the ring of poly
remove_collinear_points(coords) ==
    remove_collinear_points_tol(coords, << 1, CollinearTolInv >>)

MaxOfSet(S) == CHOOSE m \in S : \A x \in S : x <= m

DictGet(d, k, default) == IF k \in DOMAIN d THEN d[k] ELSE default

\* the least order found instead of the greatest
polygon_min_seam_order(poly, seams, so, tol) ==
    LET E == RingEdges(poly)
        touching == { i \in 0..(Len(seams) - 1) :
            \E k \in 1..Len(E) :
                LET a == E[k][1]  b == E[k][2]
                    c == seams[i + 1][1]  d == seams[i + 1][2]
                IN  \/ (collinear(a, b, c, tol) /\ collinear(a, b, d, tol))
                    \/ (collinear(c, d, a, tol) /\ collinear(c, d, b, tol)) }
        found == { -1 } \cup { DictGet(so, i, -1) : i \in touching }
    IN  CHOOSE m \in found : \A x \in found : m <= x

\* max_order over every edge of poly and every seam the edge is collinear with
polygon_max_seam_order(poly, seams, so, tol) ==
    LET E == RingEdges(poly)
        touching == { i \in 0..(Len(seams) - 1) :
            \E k \in 1..Len(E) :
                LET a == E[k][1]  b == E[k][2]
                    c == seams[i + 1][1]  d == seams[i + 1][2]
                IN  \/ (collinear(a, b, c, tol) /\ collinear(a, b, d, tol))
                    \/ (collinear(c, d, a, tol) /\ collinear(c, d, b, tol)) }
    IN  MaxOfSet({ -1 } \cup { DictGet(so, i, -1) : i \in touching })

(***************************************************************************)
(* grouping.py: group_polygons and grow_group_from_seed.                   *)
(***************************************************************************)
Poly(i) == polygons[i + 1]

AllVertices(polys) == UNION { Vertices(polys[i]) : i \in 1..Len(polys) }

\* unary_union(polygons).convex_hull; the empty geometry for no polygons
GpStart ==
    /\ gpc = "gp_start"
    /\ bounding_box' = ConvexHullRing(AllVertices(polygons))
    /\ gpc' = "cs_order0"
    /\ UNCHANGED << polygons, lines, seam_orders, current_order, polygon_orders,
                    adjacency, already_grouped, groups, seeds, group_idxs,
                    current_shape, grouped >>
    /\ UNCHANGED << lvars, pvars, rvars >>

\* classify_seams reads bbox.exterior of an empty geometry: AttributeError,
\* which group_polygons does not catch
CsRaise ==
    /\ gpc = "cs_order0"
    /\ bounding_box = << >> /\ lines # << >>
    /\ gpc' = "gp_raised"
    /\ UNCHANGED << polygons, lines, bounding_box, seam_orders, current_order,
                    polygon_orders, adjacency, already_grouped, groups, seeds,
                    group_idxs, current_shape, grouped >>
    /\ UNCHANGED << lvars, pvars, rvars >>

\* lines 269-274 of group_polygons
GpPrepare ==
    /\ gpc = "cs_done"
    /\ polygon_orders' = [ i \in 1..Len(polygons) |->
           polygon_max_seam_order(polygons[i], lines, seam_orders, TauOrder) ]
    /\ adjacency' = build_polygon_adjacency(polygons)
    /\ already_grouped' = {}
    /\ groups' = << >>
    /\ gpc' = "gp_loop"
    /\ UNCHANGED << polygons, lines, bounding_box, seam_orders, current_order,
                    seeds, group_idxs, current_shape, grouped >>
    /\ UNCHANGED << lvars, pvars, rvars >>

\* i for i in range(n) if i not in already_grouped, in list order
RECURSIVE Ungrouped(_, _, _)
Ungrouped(n, done, i) ==
    IF i >= n THEN << >>
    ELSE IF i \in done THEN Ungrouped(n, done, i + 1)
    ELSE << i >> \o Ungrouped(n, done, i + 1)

\* the least order present among the candidates
lowest_order(orders, cands) ==
    LET present == { orders[cands[k] + 1] : k \in 1..Len(cands) }
    IN  CHOOSE m \in present : \A x \in present : m <= x

\* max(polygon_orders[i] for i in candidates)
highest_order(orders, cands) == MaxOfSet({ orders[cands[k] + 1] : k \in 1..Len(cands) })

\* a minimum that keeps the last element of the least key
RECURSIVE MinByAreaLast(_, _, _)
MinByAreaLast(polys, seq, best) ==
    IF seq = << >> THEN best
    ELSE IF polygon_area(polys[Head(seq) + 1]) <= polygon_area(polys[best + 1])
         THEN MinByAreaLast(polys, Tail(seq), Head(seq))
         ELSE MinByAreaLast(polys, Tail(seq), best)

\* min(seq, key): the first element of the least key
RECURSIVE MinByArea(_, _, _)
MinByArea(polys, seq, best) ==
    IF seq = << >> THEN best
    ELSE IF polygon_area(polys[Head(seq) + 1]) < polygon_area(polys[best + 1])
         THEN MinByArea(polys, Tail(seq), Head(seq))
         ELSE MinByArea(polys, Tail(seq), best)

select_seed(polys, orders, done) ==
    LET candidates == Ungrouped(Len(polys), done, 0)
        highest == highest_order(orders, candidates)
        seed_candidates == SelectSeq(candidates, LAMBDA i : orders[i + 1] = highest)
    IN  MinByArea(polys, Tail(seed_candidates), Head(seed_candidates))

\* the grouped set without the indices grouped before
InitialGroupedSeedOnly(seed, done) == {seed}

\* grouped = set([seed_idx]) | already_grouped
InitialGrouped(seed, done) == {seed} \cup done

\* one iteration of the while loop of group_polygons up to the call of
\* grow_group_from_seed, and the first three lines of that function
GpPickSeed ==
    /\ gpc = "gp_loop"
    /\ Cardinality(already_grouped) < Len(polygons)
    /\ LET seed == select_seed(polygons, polygon_orders, already_grouped)
       IN  /\ group_idxs' = << seed >>
           /\ current_shape' = Poly(seed)
           /\ grouped' = InitialGrouped(seed, already_grouped)
           /\ seeds' = Append(seeds, [ seed |-> seed,
                  ungrouped |-> (0..(Len(polygons) - 1)) \ already_grouped ])
    /\ gpc' = "grow"
    /\ UNCHANGED << polygons, lines, bounding_box, seam_orders, current_order,
                    polygon_orders, adjacency, already_grouped, groups >>
    /\ UNCHANGED << lvars, pvars, rvars >>

\* the neighbours of the seed alone
CandidatesOfSeed == { nb \in adjacency[group_idxs[1]] : nb \notin grouped }

\* the candidates list of one pass, as the set of its elements
Candidates == { nb \in UNION { adjacency[group_idxs[k]] : k \in 1..Len(group_idxs) } :
                   nb \notin grouped }

\* the position in group_idxs at which a candidate is discovered
DiscoveryRank(nb) ==
    CHOOSE k \in 1..Len(group_idxs) :
        /\ nb \in adjacency[group_idxs[k]]
        /\ \A m \in 1..(k - 1) : nb \notin adjacency[group_idxs[m]]

\* the shared-edge test alone, without  if is_concave(merged): continue
MergeableAnyUnion(nb) == find_exact_full_shared_edge(Poly(nb), current_shape)

\* the candidate passes both tests of the scan
Mergeable(nb) ==
    /\ find_exact_full_shared_edge(Poly(nb), current_shape)
    /\ ~is_concave(PolyUnion(current_shape, Poly(nb)))

\* the neighbour appended to the group but not recorded as grouped
AddToGroupedForgotten(g, nb) == g

\* grouped.add(neighbor)
AddToGrouped(g, nb) == g \cup {nb}

\* the neighbour put in front of the group
PrependToGroup(group, nb) == << nb >> \o group

\* group_idxs.append(neighbor)
AppendToGroup(group, nb) == Append(group, nb)

\* grouped being the caller's set object itself
CallerSetAliased(caller, nb) == caller \cup {nb}

\* the caller's already_grouped after grouped.add(neighbor): grouped is the
\* new set made by  set([seed_idx]) | already_grouped
CallerSetAfterAdd(caller, nb) == caller

\* the shape of the seed kept after a merge
MergedShapeStale(shape, neighbor_poly) == shape

\* current_shape = remove_collinear_points(merged.convex_hull)
MergedShape(shape, neighbor_poly) ==
    remove_collinear_points(ConvexHullRing(PolyUnion(shape, neighbor_poly).pts))

\* one pass of the while loop of grow_group_from_seed that finds a neighbour.
\* Candidates are listed member by member of group_idxs; the neighbours of
\* one member come in the iteration order of a set, which is not fixed.
GrowAdd ==
    /\ gpc = "grow"
    /\ \E nb \in Candidates :
        /\ Mergeable(nb)
        /\ \A c \in Candidates : Mergeable(c) => DiscoveryRank(nb) <= DiscoveryRank(c)
        /\ current_shape' = MergedShape(current_shape, Poly(nb))
        /\ group_idxs' = AppendToGroup(group_idxs, nb)
        /\ grouped' = AddToGrouped(grouped, nb)
        /\ already_grouped' = CallerSetAfterAdd(already_grouped, nb)
    /\ UNCHANGED << gpc, polygons, lines, bounding_box, seam_orders, current_order,
                    polygon_orders, adjacency, groups, seeds >>
    /\ UNCHANGED << lvars, pvars, rvars >>

\* the pass that finds nothing: return group_idxs; groups.append, update
GrowStop ==
    /\ gpc = "grow"
    /\ \A nb \in Candidates : ~Mergeable(nb)
    /\ groups' = Append(groups, group_idxs)
    /\ already_grouped' = already_grouped \cup Range(group_idxs)
    /\ gpc' = "gp_loop"
    /\ UNCHANGED << polygons, lines, bounding_box, seam_orders, current_order,
                    polygon_orders, adjacency, seeds, group_idxs, current_shape,
                    grouped >>
    /\ UNCHANGED << lvars, pvars, rvars >>

GpReturn ==
    /\ gpc = "gp_loop"
    /\ Cardinality(already_grouped) >= Len(polygons)
    /\ gpc' = "gp_done"
    /\ UNCHANGED << polygons, lines, bounding_box, seam_orders, current_order,
                    polygon_orders, adjacency, already_grouped, groups, seeds,
                    group_idxs, current_shape, grouped >>
    /\ UNCHANGED << lvars, pvars, rvars >>

(***************************************************************************)
(* Inputs of group_polygons: faces of a planar subdivision of the strip    *)
(* 0..12 x 0..8.  atoms names the cells a face covers; the faces of one     *)
(* input list have pairwise disjoint interiors.                            *)
(***************************************************************************)
Pieces ==
    { [ ring |-> << <<0, 0>>, <<4, 0>>, <<4, 4>>, <<0, 4>> >>, atoms |-> {1} ],
      [ ring |-> << <<4, 0>>, <<8, 0>>, <<8, 4>>, <<4, 4>> >>, atoms |-> {2, 3} ],
      [ ring |-> << <<0, 4>>, <<4, 4>>, <<4, 8>>, <<0, 8>> >>, atoms |-> {4} ],
      [ ring |-> << <<4, 4>>, <<8, 4>>, <<8, 8>>, <<4, 8>> >>, atoms |-> {5} ],
      [ ring |-> << <<4, 0>>, <<8, 0>>, <<4, 4>> >>, atoms |-> {2} ],
      [ ring |-> << <<8, 0>>, <<8, 4>>, <<4, 4>> >>, atoms |-> {3} ],
      [ ring |-> << <<8, 0>>, <<12, 0>>, <<12, 4>>, <<8, 4>> >>, atoms |-> {6} ],
      [ ring |-> << <<0, 0>>, <<4, 0>>, <<4, 4>>, <<8, 4>>, <<8, 8>>, <<0, 8>> >>,
        atoms |-> {1, 4, 5} ] }

\* the four squares of the 2 x 2 grid
GridSquares == { p.ring : p \in { q \in Pieces : q.atoms \in { {1}, {2, 3}, {4}, {5} } } }

\* the grid in every order of the list
GridInputs == { s \in [ 1..4 -> GridSquares ] : \A i, j \in 1..4 : i # j => s[i] # s[j] }

PolygonInputs ==
    { [ i \in 1..Len(s) |-> s[i].ring ] :
        s \in { t \in SeqsUpTo(Pieces, MaxPolys) :
                  \A i, j \in 1..Len(t) : i # j => t[i].atoms \cap t[j].atoms = {} } }
    \cup GridInputs

LineInputs ==
    { << >>,
      << << <<0, 0>>, <<8, 0>> >>, << <<0, 8>>, <<8, 8>> >>, << <<4, 0>>, <<4, 8>> >> >>,
      << << <<4, 0>>, <<4, 8>> >>, << <<0, 4>>, <<4, 4>> >>,
         << <<0, 0>>, <<8, 0>> >>, << <<0, 8>>, <<8, 8>> >> >>,
      << << <<4, 4>>, <<8, 0>> >>, << <<0, 4>>, <<4, 4>> >> >> }

InitGrouping ==
    /\ gpc = "gp_start"
    /\ polygons \in PolygonInputs
    /\ lines \in LineInputs
    /\ bounding_box = << >>
    /\ seam_orders = EmptyDict
    /\ current_order = 0
    /\ polygon_orders = << >>
    /\ adjacency = EmptyDict
    /\ already_grouped = {}
    /\ groups = << >>
    /\ seeds = << >>
    /\ group_idxs = << >>
    /\ current_shape = << >>
    /\ grouped = {}
    /\ NoLayoutState
    /\ NoPipelineState
    /\ NoReduceState

NextGrouping ==
    \/ GpStart \/ CsRaise \/ CsOrder0 \/ CsOrder1 \/ CsHigherRound \/ CsReturn
    \/ GpPrepare \/ GpPickSeed \/ GrowAdd \/ GrowStop \/ GpReturn

SpecGrouping == InitGrouping /\ [][NextGrouping]_vars

(***************************************************************************)
(* layout.py.  Seam-allowance shapes are axis-parallel rectangles          *)
(* [x0, y0, x1, y1] with even coordinates, so that a rotation by a         *)
(* multiple of 90 degrees about the centroid stays on the lattice.  A      *)
(* rectangle turned by an odd multiple of 45 degrees is a rectangle        *)
(* standing on a corner whose bounding box is a square of side             *)
(* (w + h) / sqrt(2); the inputs are chosen such that it fits the          *)
(* printable box for no shape (NoDiagonalFit), which the model tests       *)
(* exactly, by squares.                                                    *)
(***************************************************************************)
Rect(x0, y0, x1, y1) == [ x0 |-> x0, y0 |-> y0, x1 |-> x1, y1 |-> y1 ]

RW(r) == r.x1 - r.x0

RH(r) == r.y1 - r.y0

RectArea(r) == RW(r) * RH(r)

Corners(r) == { << r.x0, r.y0 >>, << r.x1, r.y0 >>, << r.x1, r.y1 >>, << r.x0, r.y1 >> }

shapely_translate(r, dx, dy) == Rect(r.x0 + dx, r.y0 + dy, r.x1 + dx, r.y1 + dy)

\* shapely_rotate(poly, ang, origin="centroid") for ang a multiple of 90
shapely_rotate(r, ang) ==
    IF ang % 180 = 0 THEN r
    ELSE IF ang % 90 # 0 THEN "off the lattice"
    ELSE LET cx == (r.x0 + r.x1) \div 2
             cy == (r.y0 + r.y1) \div 2
             hw == RW(r) \div 2
             hh == RH(r) \div 2
         IN  Rect(cx - hh, cy - hw, cx + hh, cy + hw)

\* the bounding square of the rectangle turned by 45 degrees is at most
\* bw wide and bh high
DiagonalWithin(r, bw, bh) ==
    /\ bw > 0 /\ bh > 0
    /\ (RW(r) + RH(r)) * (RW(r) + RH(r)) <= 2 * bw * bw
    /\ (RW(r) + RH(r)) * (RW(r) + RH(r)) <= 2 * bh * bh

\* PageLayoutEngine.__init__: box(margin, margin, inner_width, inner_height),
\* normalized
PageBox(cfg) ==
    LET inner_width == cfg.page_width - 2 * cfg.margin
        inner_height == cfg.page_height - 2 * cfg.margin
    IN  Rect(Min2(cfg.margin, inner_width), Min2(cfg.margin, inner_height),
             Max2(cfg.margin, inner_width), Max2(cfg.margin, inner_height))

\* a containment test of the horizontal extent alone
BoxContainsWidth(b, r) ==
    /\ RW(b) > 0 /\ RH(b) > 0
    /\ b.x0 <= r.x0 /\ r.x1 <= b.x1

\* self.box.contains(r.buffer(-tol)) for a lattice rectangle r
BoxContains(b, r) ==
    /\ RW(b) > 0 /\ RH(b) > 0
    /\ b.x0 <= r.x0 /\ r.x1 <= b.x1 /\ b.y0 <= r.y0 /\ r.y1 <= b.y1

Placement(idx, rotation, dx, dy, poly) ==
    [ group_idx |-> idx, rotation |-> rotation, dx |-> dx, dy |-> dy, poly |-> poly ]

\* minimal_bounding_box_rotation: the bounding-box area of a rectangle turned
\* by t is w h + (w w + h h) |sin t cos t|, least at 0 and at 90 degrees;
\* the strict comparison keeps the first
minimal_bounding_box_rotation(r) == << r, 0 >>

\* poly.buffer(self.grow, join_style="mitre")
Buffer(r, g) == Rect(r.x0 - g, r.y0 - g, r.x1 + g, r.y1 + g)

\* an insertion that puts a later item before earlier items of its area
RECURSIVE InsertByAreaUnstable(_, _)
InsertByAreaUnstable(sorted, item) ==
    IF sorted = << >> THEN << item >>
    ELSE IF RectArea(item[2]) >= RectArea(Head(sorted)[2])
         THEN << item >> \o sorted
         ELSE << Head(sorted) >> \o InsertByAreaUnstable(Tail(sorted), item)

\* sorted(items, key=lambda x: -x[1].area): a stable insertion sort
RECURSIVE InsertByArea(_, _)
InsertByArea(sorted, item) ==
    IF sorted = << >> THEN << item >>
    ELSE IF RectArea(item[2]) > RectArea(Head(sorted)[2])
         THEN << item >> \o sorted
         ELSE << Head(sorted) >> \o InsertByArea(Tail(sorted), item)

RECURSIVE SortedByArea(_, _)
SortedByArea(items, k) ==
    IF k = 0 THEN << >>
    ELSE InsertByArea(SortedByArea(items, k - 1), items[k])

prepare_packing_inputs(sa, cfg) ==
    LET items == [ i \in 1..Len(sa) |-> << i - 1, sa[i] >> ]
        sorted == SortedByArea(items, Len(items))
    IN  [ k \in 1..Len(sorted) |->
            LET rot == minimal_bounding_box_rotation(sorted[k][2])
            IN  [ idx |-> sorted[k][1], poly |-> Buffer(rot[1], cfg.grow), angle |-> rot[2] ] ]

\* score_placements: twice the hull area of all placed polygons
score_placements(placements) ==
    HullArea2(UNION { Corners(placements[k].poly) : k \in 1..Len(placements) })

FirstAngles == << 0, 90, 45, 135 >>

NextAngles == << 0, 45, 90, 135, 180, 225, 270, 315 >>

\* the rotations tried only when the configuration allows rotating
rotations_if_allowed(cfg, angles) == IF cfg.allow_rotate THEN angles ELSE << 0 >>

\* for ang in [...]: the loops of _place_first and _place_next run over
\* their whole lists; config.allow_rotate is read nowhere
rotations_tried(cfg, angles) == angles

\* the test of one rotation of _place_first: the rotated shape, moved with
\* its bounding-box origin onto the first vertex of the box, is inside
FirstFits(b, poly, ang) ==
    IF ang % 90 = 0
    THEN LET rotated == shapely_rotate(poly, ang)
         IN  BoxContains(b, shapely_translate(rotated, b.x0 - rotated.x0, b.y0 - rotated.y0))
    ELSE DiagonalWithin(poly, RW(b), RH(b))

\* the rotations of _place_first that fit, in the order they are tried
FirstFitAngles(b, poly) ==
    SelectSeq(rotations_tried(config, FirstAngles), LAMBDA a : FirstFits(b, poly, a))

\* _place_first reaches its raise statement
first_unplaceable(b, poly) == FirstFitAngles(b, poly) = << >>

\* _place_first when it returns: the Placement of the first rotation that fits
place_first(b, idx, poly, angle) ==
    LET ang == Head(FirstFitAngles(b, poly))
        rotated == shapely_rotate(poly, ang)
        dx == b.x0 - rotated.x0
        dy == b.y0 - rotated.y0
    IN  Placement(idx, angle + ang, dx, dy, shapely_translate(rotated, dx, dy))

(***************************************************************************)
(* _place_next.  minkowski(a, b) sweeps the outline of a along the         *)
(* reflected outline of b, b's first vertex at the origin: the set of      *)
(* positions of that vertex at which the two outlines meet.  Filled        *)
(* (unary_union of its paths) it is the no-fit polygon; for the box its    *)
(* second path is the hole of the positions at which b lies strictly       *)
(* inside, present only when b is strictly smaller than the box.           *)
(***************************************************************************)
\* the placed polygon itself, not swept by the moving shape
NoFitPolygonUnswept(placedPoly, rotated) == placedPoly

\* unary_union(minkowski(p.poly, rotated)): the reference vertex of the
\* normalized rotated rectangle is its least corner
NoFitPolygon(placedPoly, rotated) ==
    Rect(placedPoly.x0 - RW(rotated), placedPoly.y0 - RH(rotated), placedPoly.x1, placedPoly.y1)

\* minkowski(self.box, rotated) has a second path
HasInnerFit(b, rotated) == RW(rotated) < RW(b) /\ RH(rotated) < RH(b)

\* ifp_raw[1]
InnerFitPolygon(b, rotated) == Rect(b.x0, b.y0, b.x1 - RW(rotated), b.y1 - RH(rotated))

PointInRect(p, r) == r.x0 <= p[1] /\ p[1] <= r.x1 /\ r.y0 <= p[2] /\ p[2] <= r.y1

LatticePoints(r) == { << x, y >> : x \in r.x0..r.x1, y \in r.y0..r.y1 }

\* the lattice points of ifp on the lines through the sides of the
\* rectangles: the boundary of their union lies on these lines
SidePoints(ifp, rects) ==
    { p \in UNION { LatticePoints(Rect(r.x0, ifp.y0, r.x0, ifp.y1))
                      \cup LatticePoints(Rect(r.x1, ifp.y0, r.x1, ifp.y1))
                      \cup LatticePoints(Rect(ifp.x0, r.y0, ifp.x1, r.y0))
                      \cup LatticePoints(Rect(ifp.x0, r.y1, ifp.x1, r.y1)) : r \in rects } :
        PointInRect(p, ifp) }

\* the unit cell with least corner c lies in the union of the rectangles
CellInUnion(c, rects) ==
    \E r \in rects : r.x0 <= c[1] /\ c[1] + 1 <= r.x1 /\ r.y0 <= c[2] /\ c[2] + 1 <= r.y1

\* the unit segment from p to the right (upwards) is part of the boundary
\* of the union
HEdge(p, rects) == CellInUnion(p, rects) # CellInUnion(<< p[1], p[2] - 1 >>, rects)

VEdge(p, rects) == CellInUnion(p, rects) # CellInUnion(<< p[1] - 1, p[2] >>, rects)

\* p is on unary_union(nfp_parts).boundary
OnUnionBoundary(p, rects) ==
    /\ \E r \in rects : PointInRect(p, r)
    /\ ~(/\ CellInUnion(p, rects)
         /\ CellInUnion(<< p[1] - 1, p[2] >>, rects)
         /\ CellInUnion(<< p[1], p[2] - 1 >>, rects)
         /\ CellInUnion(<< p[1] - 1, p[2] - 1 >>, rects))

\* the pieces of  valid = ifp.intersection(nfp)  that leave p inside ifp
ValidEast(p, ifp, rects) == PointInRect(<< p[1] + 1, p[2] >>, ifp) /\ HEdge(p, rects)

ValidWest(p, ifp, rects) ==
    PointInRect(<< p[1] - 1, p[2] >>, ifp) /\ HEdge(<< p[1] - 1, p[2] >>, rects)

ValidNorth(p, ifp, rects) == PointInRect(<< p[1], p[2] + 1 >>, ifp) /\ VEdge(p, rects)

ValidSouth(p, ifp, rects) ==
    PointInRect(<< p[1], p[2] - 1 >>, ifp) /\ VEdge(<< p[1], p[2] - 1 >>, rects)

OnValidLine(p, ifp, rects) ==
    \/ ValidEast(p, ifp, rects) \/ ValidWest(p, ifp, rects)
    \/ ValidNorth(p, ifp, rects) \/ ValidSouth(p, ifp, rects)

\* the line passes straight through p
StraightThrough(p, ifp, rects) ==
    \/ /\ ValidEast(p, ifp, rects) /\ ValidWest(p, ifp, rects)
       /\ ~ValidNorth(p, ifp, rects) /\ ~ValidSouth(p, ifp, rects)
    \/ /\ ValidNorth(p, ifp, rects) /\ ValidSouth(p, ifp, rects)
       /\ ~ValidEast(p, ifp, rects) /\ ~ValidWest(p, ifp, rects)

\* self._extract_coords(valid) when valid is a LineString or MultiLineString,
\* [] otherwise: the vertices of the lines are their ends, their bends and
\* the vertices of the no-fit polygons on them.  A point of the boundary
\* inside ifp on no line of ifp makes valid a GeometryCollection or a
\* (Multi)Point.
ValidCoords(ifp, rects) ==
    LET boundary == { p \in SidePoints(ifp, rects) : OnUnionBoundary(p, rects) }
        onLine == { p \in boundary : OnValidLine(p, ifp, rects) }
    IN  IF boundary # onLine THEN {}
        ELSE { p \in onLine :
                 \/ ~StraightThrough(p, ifp, rects)
                 \/ \E r \in rects : p \in Corners(r) }

\* candidate_placements_for_rotation(rotated, ang), as a set
candidate_placements_for_rotation(b, idx, poly, angle, placed, ang) ==
    IF ang % 90 # 0
    THEN \* turned by 45 degrees the shape does not fit: len(ifp_raw) == 1
         {}
    ELSE LET rotated == shapely_rotate(poly, ang)
             nfp_parts == { NoFitPolygon(placed[k].poly, rotated) : k \in 1..Len(placed) }
         IN  IF ~HasInnerFit(b, rotated) THEN {}
             ELSE { Placement(idx, angle + ang, c[1] - rotated.x0, c[2] - rotated.y0,
                              shapely_translate(rotated, c[1] - rotated.x0, c[2] - rotated.y0)) :
                      c \in ValidCoords(InnerFitPolygon(b, rotated), nfp_parts) }

\* all candidates of _place_next with the position of their rotation
AllCandidates(b, idx, poly, angle, placed) ==
    UNION { { << k, c >> :
                c \in candidate_placements_for_rotation(b, idx, poly, angle, placed,
                                                        rotations_tried(config, NextAngles)[k]) } :
            k \in 1..Len(rotations_tried(config, NextAngles)) }

\* best replaced by a score that is smaller or equal: the last rotation of
\* least score
place_next_last_rotation(b, idx, poly, angle, placed) ==
    LET cands == AllCandidates(b, idx, poly, angle, placed)
        scored == { << kc[1], kc[2], score_placements(Append(placed, kc[2])) >> : kc \in cands }
        least == { m \in scored : \A o \in scored : m[3] <= o[3] }
    IN  { m[2] : m \in { m \in least : \A o \in least : m[1] >= o[1] } }

\* the values _place_next can return: best is replaced only by a strictly
\* smaller score, so the result is a candidate of least score of the first
\* rotation that has one; the order of the candidates of one rotation is
\* that of the coordinates of valid, which the kernel fixes.  {} for None.
place_next(b, idx, poly, angle, placed) ==
    LET cands == AllCandidates(b, idx, poly, angle, placed)
        scored == { << kc[1], kc[2], score_placements(Append(placed, kc[2])) >> : kc \in cands }
        least == { m \in scored : \A o \in scored : m[3] <= o[3] }
    IN  { m[2] : m \in { m \in least : \A o \in least : m[1] <= o[1] } }

(***************************************************************************)
(* layout_groups.                                                          *)
(***************************************************************************)
\* the tuple the for loop is at
CurrentItem == to_pack[next_i + 1]

\* what _place_next returns for the current tuple on page k ({} for None)
NextOnPage(k) ==
    place_next(PageBox(config), CurrentItem.idx, CurrentItem.poly, CurrentItem.angle, pages[k])

AcceptingPages == { k \in 1..Len(pages) : NextOnPage(k) # {} }

\* pages = []; the call of prepare_packing_inputs
LgPrepare ==
    /\ lpc = "lg_start"
    /\ pages' = << >>
    /\ to_pack' = prepare_packing_inputs(seam_allowances, config)
    /\ next_i' = 0
    /\ lpc' = "lg_loop"
    /\ UNCHANGED << config, seam_allowances, lg_result, lg_error >>
    /\ UNCHANGED << gvars, pvars, rvars >>

\* the last of the accepting pages
last_accepting_page(accepting) == CHOOSE m \in accepting : \A o \in accepting : o <= m

\* for page in pages: ... break  stops at the first page that accepts
first_accepting_page(accepting) == CHOOSE m \in accepting : \A o \in accepting : m <= o

\* the placement put in front of the placements of page k
PlaceOnPageFront(pgs, k, pl) == [ pgs EXCEPT ![k] = << pl >> \o @ ]

\* the append to page k with placed_on_existing left False: the placement
\* opens a new page as well
PlaceOnPageAndOpen(pgs, k, pl) == Append([ pgs EXCEPT ![k] = Append(@, pl) ], << pl >>)

\* page.append(next_placement); placed_on_existing = True; break
PlaceOnPage(pgs, k, pl) == [ pgs EXCEPT ![k] = Append(@, pl) ]

\* one iteration of the for loop: the first page that accepts the shape
LgPlaceExisting ==
    /\ lpc = "lg_loop"
    /\ next_i < Len(to_pack)
    /\ AcceptingPages # {}
    /\ LET k == first_accepting_page(AcceptingPages)
       IN  \E next_placement \in NextOnPage(k) :
               pages' = PlaceOnPage(pages, k, next_placement)
    /\ next_i' = next_i + 1
    /\ UNCHANGED << lpc, config, seam_allowances, to_pack, lg_result, lg_error >>
    /\ UNCHANGED << gvars, pvars, rvars >>

\* one iteration of the for loop: no page accepts, _place_first returns
LgNewPage ==
    /\ lpc = "lg_loop"
    /\ next_i < Len(to_pack)
    /\ AcceptingPages = {}
    /\ ~first_unplaceable(PageBox(config), CurrentItem.poly)
    /\ pages' = Append(pages, << place_first(PageBox(config), CurrentItem.idx,
                                             CurrentItem.poly, CurrentItem.angle) >>)
    /\ next_i' = next_i + 1
    /\ UNCHANGED << lpc, config, seam_allowances, to_pack, lg_result, lg_error >>
    /\ UNCHANGED << gvars, pvars, rvars >>

\* a message that names every group that fits an empty page in no rotation
ErrorGroupsAll(idx, tp, b) ==
    { tp[k].idx : k \in { m \in 1..Len(tp) : first_unplaceable(b, tp[m].poly) } }

\* the groups the message of the ValueError names:
\* f"Largest piece (group {idx}) cannot be placed on the page."
ErrorGroups(idx, tp, b) == { idx }

\* one iteration of the for loop: no page accepts, _place_first raises
LgRaise ==
    /\ lpc = "lg_loop"
    /\ next_i < Len(to_pack)
    /\ AcceptingPages = {}
    /\ first_unplaceable(PageBox(config), CurrentItem.poly)
    /\ lg_error' = ErrorGroups(CurrentItem.idx, to_pack, PageBox(config))
    /\ lpc' = "lg_raised"
    /\ UNCHANGED << config, seam_allowances, to_pack, next_i, pages, lg_result >>
    /\ UNCHANGED << gvars, pvars, rvars >>

\* return pages
LgReturn ==
    /\ lpc = "lg_loop"
    /\ next_i >= Len(to_pack)
    /\ lg_result' = Returned(pages)
    /\ lpc' = "lg_done"
    /\ UNCHANGED << config, seam_allowances, to_pack, next_i, pages, lg_error >>
    /\ UNCHANGED << gvars, pvars, rvars >>

(***************************************************************************)
(* Inputs of layout_groups.                                                *)
(***************************************************************************)
ShapeInputs ==
    { Rect(0, 0, 2, 2), Rect(0, 0, 4, 2), Rect(0, 0, 2, 4),
      Rect(0, 0, 6, 2), Rect(0, 0, 4, 4), Rect(0, 0, 10, 2) }

PageInputs ==
    { [ page_width |-> 14, page_height |-> 10, margin |-> 2 ],
      [ page_width |-> 10, page_height |-> 10, margin |-> 4 ],
      [ page_width |-> 12, page_height |-> 5, margin |-> 0 ] }

GrowInputs == { 0, 1 }

ConfigInputs ==
    { [ page_width |-> pg.page_width, page_height |-> pg.page_height,
        margin |-> pg.margin, grow |-> g, allow_rotate |-> r ] :
        pg \in PageInputs, g \in GrowInputs, r \in BOOLEAN }

\* no shape, grown, fits the box when turned by 45 degrees
NoDiagonalFit(cfg, sa) ==
    \A i \in 1..Len(sa) :
        ~DiagonalWithin(Buffer(sa[i], cfg.grow), RW(PageBox(cfg)), RH(PageBox(cfg)))

\* classify_seams and group_polygons are not in use
IdleGrouping ==
    /\ gpc = "idle"
    /\ lines = << >>
    /\ bounding_box = << >>
    /\ seam_orders = EmptyDict
    /\ current_order = 0
    /\ NoGroupState

\* LayoutConfig(page_width_in=8.5, page_height_in=11, margin_in=0.25,
\* margin_between=0.1, svg_units_per_in=1), in units of 0.05
TwentyConfig ==
    [ page_width |-> 170, page_height |-> 220, margin |-> 5, grow |-> 1,
      allow_rotate |-> TRUE ]

\* twenty squares of 6 x 6 units, in units of 0.05
TwentySquares == [ i \in 1..20 |-> Rect(0, 0, 120, 120) ]

InitLayout ==
    /\ lpc = "lg_start"
    /\ \/ /\ config \in ConfigInputs
          /\ seam_allowances \in SeqsUpTo(ShapeInputs, MaxShapes)
       \/ /\ config = TwentyConfig
          /\ seam_allowances = TwentySquares
    /\ NoDiagonalFit(config, seam_allowances)
    /\ to_pack = << >>
    /\ next_i = 0
    /\ pages = << >>
    /\ lg_result = NotReturned
    /\ lg_error = {}
    /\ IdleGrouping
    /\ NoPipelineState
    /\ NoReduceState

NextLayout == LgPrepare \/ LgPlaceExisting \/ LgNewPage \/ LgRaise \/ LgReturn

SpecLayout == InitLayout /\ [][NextLayout]_vars

(***************************************************************************)
(* main.py: run_pipeline.  The stages before compute_layout are kept as    *)
(* the fields of PipelineState they set; the shapes in the input file      *)
(* stand for the seam allowances derived from it.                          *)
(***************************************************************************)
\* svg_path.is_file() fails: print the error, sys.exit(1)
PipeNoFile ==
    /\ ppc = "start"
    /\ ~svg.exists
    /\ ppc' = "exit_1"
    /\ UNCHANGED << svg, pconfig, state, png_written, pdf_written >>
    /\ UNCHANGED << gvars, lvars, rvars >>

\* parse_svg_and_geometry ... label_polygons_step
PipeParse ==
    /\ ppc = "start"
    /\ svg.exists
    /\ state' = [ state EXCEPT !.parsed = TRUE ]
    /\ ppc' = "get_polygon_colors"
    /\ UNCHANGED << svg, pconfig, png_written, pdf_written >>
    /\ UNCHANGED << gvars, lvars, rvars >>

PipeColors ==
    /\ ppc = "get_polygon_colors"
    /\ state' = [ state EXCEPT !.colors = TRUE ]
    /\ ppc' = "group_polygons_step"
    /\ UNCHANGED << svg, pconfig, png_written, pdf_written >>
    /\ UNCHANGED << gvars, lvars, rvars >>

PipeGroup ==
    /\ ppc = "group_polygons_step"
    /\ state' = [ state EXCEPT !.groups = TRUE ]
    /\ ppc' = "label_polygons_step"
    /\ UNCHANGED << svg, pconfig, png_written, pdf_written >>
    /\ UNCHANGED << gvars, lvars, rvars >>

PipeLabel ==
    /\ ppc = "label_polygons_step"
    /\ state' = [ state EXCEPT !.labels = TRUE ]
    /\ ppc' = "compute_seam_allowances"
    /\ UNCHANGED << svg, pconfig, png_written, pdf_written >>
    /\ UNCHANGED << gvars, lvars, rvars >>

PipeSeamAllowances ==
    /\ ppc = "compute_seam_allowances"
    /\ state' = [ state EXCEPT !.seam_allowances = svg.shapes, !.has_seam_allowances = TRUE ]
    /\ ppc' = "compute_layout"
    /\ UNCHANGED << svg, pconfig, png_written, pdf_written >>
    /\ UNCHANGED << gvars, lvars, rvars >>

\* compute_layout up to the call layout_groups(state.seam_allowances,
\* layout_config): margin_between keeps its default, a grow of one unit
PipeLayoutCall ==
    /\ ppc = "compute_layout"
    /\ lpc = "idle"
    /\ config' = [ page_width |-> pconfig.page_width, page_height |-> pconfig.page_height,
                   margin |-> pconfig.margin, grow |-> 1, allow_rotate |-> TRUE ]
    /\ seam_allowances' = state.seam_allowances
    /\ lpc' = "lg_start"
    /\ UNCHANGED << to_pack, next_i, pages, lg_result, lg_error >>
    /\ UNCHANGED << gvars, pvars, rvars >>

\* layout_groups returned: state.pages = ...; return state
PipeLayoutReturn ==
    /\ ppc = "compute_layout"
    /\ lpc = "lg_done"
    /\ state' = [ state EXCEPT !.pages = lg_result.pages, !.has_pages = TRUE ]
    /\ ppc' = "export_png"
    /\ UNCHANGED << svg, pconfig, png_written, pdf_written >>
    /\ UNCHANGED << gvars, lvars, rvars >>

\* the ValueError caught and the run carried on
AfterLayoutErrorCaught == "export_png"

\* where run_pipeline continues when layout_groups raises: nothing catches
\* the ValueError
AfterLayoutError == "failed"

PipeLayoutRaise ==
    /\ ppc = "compute_layout"
    /\ lpc = "lg_raised"
    /\ ppc' = AfterLayoutError
    /\ UNCHANGED << svg, pconfig, state, png_written, pdf_written >>
    /\ UNCHANGED << gvars, lvars, rvars >>

PipeExportPng ==
    /\ ppc = "export_png"
    /\ png_written' = TRUE
    /\ ppc' = "export_pdf"
    /\ UNCHANGED << svg, pconfig, state, pdf_written >>
    /\ UNCHANGED << gvars, lvars, rvars >>

PipeExportPdf ==
    /\ ppc = "export_pdf"
    /\ pdf_written' = TRUE
    /\ ppc' = "print_results"
    /\ UNCHANGED << svg, pconfig, state, png_written >>
    /\ UNCHANGED << gvars, lvars, rvars >>

PipePrintResults ==
    /\ ppc = "print_results"
    /\ ppc' = "done"
    /\ UNCHANGED << svg, pconfig, state, png_written, pdf_written >>
    /\ UNCHANGED << gvars, lvars, rvars >>

InitPipeline ==
    /\ ppc = "start"
    /\ pconfig \in PageInputs
    /\ svg \in { [ exists |-> e, shapes |-> sh ] :
                   e \in BOOLEAN, sh \in SeqsUpTo(ShapeInputs, MaxShapes) }
    /\ NoDiagonalFit([ page_width |-> pconfig.page_width, page_height |-> pconfig.page_height,
                       margin |-> pconfig.margin, grow |-> 1 ], svg.shapes)
    /\ state = InitialState
    /\ png_written = FALSE
    /\ pdf_written = FALSE
    /\ NoLayoutState
    /\ IdleGrouping
    /\ NoReduceState

NextPipeline ==
    \/ PipeNoFile \/ PipeParse \/ PipeColors \/ PipeGroup \/ PipeLabel
    \/ PipeSeamAllowances \/ PipeLayoutCall
    \/ LgPrepare \/ LgPlaceExisting \/ LgNewPage \/ LgRaise \/ LgReturn
    \/ PipeLayoutReturn \/ PipeLayoutRaise
    \/ PipeExportPng \/ PipeExportPdf \/ PipePrintResults

SpecPipeline == InitPipeline /\ [][NextPipeline]_vars

(***************************************************************************)
(* utils.py: remove_collinear_points applied to a polygon and then to its  *)
(* own result.  Polygon(result) raises for fewer than three points.        *)
(***************************************************************************)
\* the ring r listed from its vertex k + 1 on
Rotate(r, k) == [ i \in 1..Len(r) |-> r[((i - 1 + k) % Len(r)) + 1] ]

RcOnce ==
    /\ rpc = "rc_start"
    /\ Len(remove_collinear_points_tol(ring, tolerance)) >= 3
    /\ once' = remove_collinear_points_tol(ring, tolerance)
    /\ rpc' = "rc_once"
    /\ UNCHANGED << ring, tolerance, twice >>
    /\ UNCHANGED << gvars, lvars, pvars >>

RcTwice ==
    /\ rpc = "rc_once"
    /\ Len(remove_collinear_points_tol(once, tolerance)) >= 3
    /\ twice' = remove_collinear_points_tol(once, tolerance)
    /\ rpc' = "rc_twice"
    /\ UNCHANGED << ring, tolerance, once >>
    /\ UNCHANGED << gvars, lvars, pvars >>

\* fewer than three points are left: Polygon(result) raises
RcRaise ==
    /\ \/ rpc = "rc_start" /\ Len(remove_collinear_points_tol(ring, tolerance)) < 3
       \/ rpc = "rc_once" /\ Len(remove_collinear_points_tol(once, tolerance)) < 3
    /\ rpc' = "rc_raised"
    /\ UNCHANGED << ring, tolerance, once, twice >>
    /\ UNCHANGED << gvars, lvars, pvars >>

\* simple polygons with distinct vertices
RingInputs ==
    { << <<0, 0>>, <<4, 0>>, <<0, 4>> >>,
      << <<0, 0>>, <<4, 0>>, <<4, 4>>, <<0, 4>> >>,
      << <<0, 0>>, <<2, 0>>, <<4, 0>>, <<4, 4>>, <<0, 4>> >>,
      << <<0, 0>>, <<2, 0>>, <<4, 0>>, <<4, 4>>, <<2, 4>>, <<0, 4>> >>,
      << <<0, 0>>, <<4, 0>>, <<4, 2>>, <<2, 2>>, <<2, 4>>, <<0, 4>> >>,
      << <<0, 0>>, <<0, 2>>, <<1, 1>>, <<3, 2>>, <<3, 0>> >>,
      << <<0, 0>>, <<0, 1>>, <<3, 2>>, <<2, 0>>, <<2, 1>> >>,
      << <<0, 0>>, <<0, 1>>, <<0, 2>>, <<1, 1>>, <<1, 0>> >> }

\* the default 1e-2 and two tolerances above the lattice spacing
ToleranceInputs == { << 1, CollinearTolInv >>, << 2, 1 >>, << 3, 1 >> }

InitReduce ==
    /\ rpc = "rc_start"
    /\ \E r \in RingInputs : \E k \in 0..(Len(r) - 1) : ring = Rotate(r, k)
    /\ tolerance \in ToleranceInputs
    /\ once = << >>
    /\ twice = << >>
    /\ IdleGrouping
    /\ NoLayoutState
    /\ NoPipelineState

NextReduce == RcOnce \/ RcTwice \/ RcRaise

SpecReduce == InitReduce /\ [][NextReduce]_vars

(***************************************************************************)
(* Properties.                                                             *)
(***************************************************************************)
\* the places (group, position) at which index i occurs in a list of groups
Occurrences(gs, i) ==
    { gk \in { << g, k >> : g \in 1..Len(gs), k \in 1..MaxPolys + 1 } :
        gk[2] <= Len(gs[gk[1]]) /\ gs[gk[1]][gk[2]] = i }

\* C1: when group_polygons returns, every polygon index 0..n-1 occurs in
\* exactly one group and exactly once, and the group sizes sum to n.
C1_Partition ==
    gpc = "gp_done" =>
        /\ \A i \in 0..(Len(polygons) - 1) : Cardinality(Occurrences(groups, i)) = 1
        /\ \A g \in 1..Len(groups) : Range(groups[g]) \subseteq 0..(Len(polygons) - 1)
        /\ SumSeq([ g \in 1..Len(groups) |-> Len(groups[g]) ]) = Len(polygons)

\* group_polygons has returned two groups for three polygons, one of them grown
C1_Witness ==
    /\ gpc = "gp_done"
    /\ Len(polygons) = 3
    /\ Len(groups) = 2
    /\ \E g \in 1..Len(groups) : Len(groups[g]) = 2

\* the placements (page, position) of group idx in a list of pages
PlacementsOf(pgs, idx) ==
    { pk \in { << p, k >> : p \in 1..Len(pgs), k \in 1..MaxShapes + 1 } :
        pk[2] <= Len(pgs[pk[1]]) /\ pgs[pk[1]][pk[2]].group_idx = idx }

\* C2: when layout_groups returns, every group index of the seam-allowance
\* mapping has exactly one Placement over all returned pages.
C2_EveryGroupOnce ==
    lg_result.returned =>
        /\ \A idx \in 0..(Len(seam_allowances) - 1) :
               Cardinality(PlacementsOf(lg_result.pages, idx)) = 1
        /\ SumSeq([ p \in 1..Len(lg_result.pages) |-> Len(lg_result.pages[p]) ])
               = Len(seam_allowances)

\* layout_groups has returned three groups on two pages
C2_Witness ==
    /\ lg_result.returned
    /\ Len(seam_allowances) = 3
    /\ Len(lg_result.pages) = 2

\* the area of the intersection of two rectangles
OverlapArea(a, b) ==
    LET w == Min2(a.x1, b.x1) - Max2(a.x0, b.x0)
        h == Min2(a.y1, b.y1) - Max2(a.y0, b.y0)
    IN  IF w > 0 /\ h > 0 THEN w * h ELSE 0

NoOverlapOn(pgs) ==
    \A p \in 1..Len(pgs) : \A i, j \in 1..Len(pgs[p]) :
        i # j => OverlapArea(pgs[p][i].poly, pgs[p][j].poly) = 0

\* C3: no two placed shapes of one page overlap, on the pages under
\* construction and on the pages returned.
C3_NoOverlap == NoOverlapOn(pages) /\ NoOverlapOn(lg_result.pages)

\* a returned page holds three shapes, two of them placed by _place_next
C3_Witness ==
    /\ lg_result.returned
    /\ \E p \in 1..Len(lg_result.pages) : Len(lg_result.pages[p]) = 3

\* C4: every placed polygon on every returned page lies at least the margin
\* away from each of the four page edges.
C4_InsideMargins ==
    lg_result.returned =>
        \A p \in 1..Len(lg_result.pages) : \A k \in 1..Len(lg_result.pages[p]) :
            LET r == lg_result.pages[p][k].poly
            IN  /\ config.margin <= r.x0 /\ r.x1 <= config.page_width - config.margin
                /\ config.margin <= r.y0 /\ r.y1 <= config.page_height - config.margin

\* the shape r, its origin on the origin of the box b, is inside b when
\* turned by 0, 90, 45 or 135 degrees
FitsSomeRotation(b, r) ==
    /\ RW(b) > 0 /\ RH(b) > 0
    /\ \/ (RW(r) <= RW(b) /\ RH(r) <= RH(b))
       \/ (RH(r) <= RW(b) /\ RW(r) <= RH(b))
       \/ DiagonalWithin(r, RW(b), RH(b))

\* C5: when the shape at hand is accepted by no existing page and is inside
\* the printable box under none of the rotations 0, 90, 45, 135, the next
\* step of layout_groups is the ValueError naming that group, and no pages
\* are returned.
C5_UnplaceableRaises ==
    [][ /\ (/\ lpc = "lg_loop" /\ next_i < Len(to_pack)
            /\ AcceptingPages = {}
            /\ ~FitsSomeRotation(PageBox(config), CurrentItem.poly))
           => (/\ lpc' = "lg_raised"
               /\ lg_error' = { CurrentItem.idx }
               /\ lg_result' = NotReturned)
        /\ lpc = "lg_raised" => lg_result' = NotReturned ]_vars

\* the error was raised for a group that is not the first one processed
C5_Witness ==
    /\ lpc = "lg_raised"
    /\ next_i >= 1
    /\ lg_error = { to_pack[next_i + 1].idx }
    /\ ~FitsSomeRotation(PageBox(config), to_pack[next_i + 1].poly)

\* the groups that fit an empty page under no rotation
UnplaceableGroups ==
    { to_pack[k].idx : k \in { m \in 1..Len(to_pack) :
                                 ~FitsSomeRotation(PageBox(config), to_pack[m].poly) } }

\* C6 as stated: the error of a failed pass identifies every group that is
\* unplaceable on an empty page.
C6_AllUnplaceableNamed == lpc = "lg_raised" => lg_error = UnplaceableGroups

\* C6 amended: the error identifies exactly one group, the first in
\* processing order that is unplaceable on an empty page; every group
\* processed before it has been placed.
C6_FirstUnplaceableNamed ==
    lpc = "lg_raised" =>
        /\ lg_error = { to_pack[next_i + 1].idx }
        /\ ~FitsSomeRotation(PageBox(config), to_pack[next_i + 1].poly)
        /\ \A k \in 1..next_i :
               /\ FitsSomeRotation(PageBox(config), to_pack[k].poly)
               /\ Cardinality(PlacementsOf(pages, to_pack[k].idx)) = 1

\* a failed pass with several unplaceable groups
C6_Witness ==
    /\ lpc = "lg_raised"
    /\ Cardinality(UnplaceableGroups) >= 2

\* C7: after compute_layout has failed neither export has run nor runs, and
\* state.pages is only ever set to the complete list layout_groups returned.
C7_NoPartialOutput ==
    /\ lpc = "lg_raised" =>
           /\ ~png_written /\ ~pdf_written /\ ~state.has_pages
           /\ ppc \in { "compute_layout", "failed" }
    /\ state.has_pages =>
           /\ lg_result.returned /\ state.pages = lg_result.pages
           /\ \A idx \in 0..(Len(state.seam_allowances) - 1) :
                  Cardinality(PlacementsOf(state.pages, idx)) = 1
    /\ (png_written \/ pdf_written) => state.has_pages

\* the run has failed in compute_layout after the engine had filled a page
C7_Witness ==
    /\ ppc = "failed"
    /\ lpc = "lg_raised"
    /\ Len(pages) >= 1

\* C8: the adjacency mapping built by build_polygon_adjacency has one key
\* for every polygon index and is symmetric.
C8_AdjacencySymmetric ==
    gpc \in { "gp_loop", "grow", "gp_done" } =>
        /\ DOMAIN adjacency = 0..(Len(polygons) - 1)
        /\ \A i, j \in 0..(Len(polygons) - 1) : j \in adjacency[i] <=> i \in adjacency[j]

\* three polygons, some of them adjacent and some not
C8_Witness ==
    /\ gpc = "gp_loop"
    /\ Len(polygons) = 3
    /\ \E i, j \in DOMAIN adjacency : i # j /\ j \in adjacency[i]
    /\ \E i, j \in DOMAIN adjacency : i # j /\ j \notin adjacency[i]

\* the segments of order k that segment i intersects
IntersectedOfOrder(i, k) ==
    { j \in Keys(seam_orders) :
        seam_orders[j] = k /\ SegIntersects(lines[i + 1], lines[j + 1]) }

\* C9: in the mapping classify_seams returns, a segment of order 0 is
\* collinear within tol with an edge of the bounding box, a segment of order
\* 1 intersects exactly two segments of order 0, and a segment of order
\* k >= 2 intersects a segment of order k - 1.
C9_SeamOrders ==
    gpc = "cs_done" =>
        \A i \in Keys(seam_orders) :
            /\ i \in 0..(Len(lines) - 1)
            /\ seam_orders[i] = 0 =>
                   \E k \in 1..Len(bounding_box) :
                       LET e == RingEdges(bounding_box)[k]
                       IN  /\ Abs(Cross(e[1], e[2], lines[i + 1][1])) < TauOrder
                           /\ Abs(Cross(e[1], e[2], lines[i + 1][2])) < TauOrder
            /\ seam_orders[i] = 1 => Cardinality(IntersectedOfOrder(i, 0)) = 2
            /\ seam_orders[i] >= 2 => IntersectedOfOrder(i, seam_orders[i] - 1) # {}

\* a returned mapping with segments of the orders 0, 1 and 2
C9_Witness ==
    /\ gpc = "cs_done"
    /\ \A k \in 0..2 : \E i \in Keys(seam_orders) : seam_orders[i] = k

\* C10: every seed is an ungrouped polygon of the highest order among the
\* ungrouped ones, of the least area among those, and of the lowest index
\* among those of that area.
C10_SeedChoice ==
    \A s \in 1..Len(seeds) :
        LET seed == seeds[s].seed
            open == seeds[s].ungrouped
        IN  /\ seed \in open
            /\ \A j \in open : polygon_orders[j + 1] <= polygon_orders[seed + 1]
            /\ \A j \in open :
                   polygon_orders[j + 1] = polygon_orders[seed + 1] =>
                       \/ Area2(polygons[seed + 1]) < Area2(polygons[j + 1])
                       \/ (Area2(polygons[seed + 1]) = Area2(polygons[j + 1]) /\ seed <= j)

\* a seed chosen while a polygon of lower order and another polygon of its
\* order and area were ungrouped as well
C10_Witness ==
    \E s \in 1..Len(seeds) :
        LET seed == seeds[s].seed
            open == seeds[s].ungrouped
        IN  /\ \E j \in open : polygon_orders[j + 1] < polygon_orders[seed + 1]
            /\ \E j \in open :
                   /\ j # seed
                   /\ polygon_orders[j + 1] = polygon_orders[seed + 1]
                   /\ Area2(polygons[j + 1]) = Area2(polygons[seed + 1])

\* a bound on the steps the two loops of group_polygons have left: for every
\* polygon not yet in already_grouped one seed choice, one growth pass and
\* one stop, less the passes the current growth run has made
LoopRank ==
    LET n == Len(polygons)
        a == Cardinality(already_grouped)
        g == Cardinality(grouped)
    IN  IF gpc = "gp_loop" THEN (n + 2) * (n - a) + 1
        ELSE IF gpc = "grow" THEN (n + 2) * (n - a) - (g - a)
        ELSE 0

\* C11: group_polygons terminates.  A pass of the growth loop that does not
\* stop adds exactly one index to grouped, a growth run makes no more passes
\* than there were ungrouped polygons when its seed was chosen, an iteration
\* of the seed loop adds the seed, at least, to already_grouped, and every
\* step of the two loops lowers a rank that is never negative.
C11_Terminates ==
    /\ [][ (gpc = "grow" /\ group_idxs' # group_idxs) =>
               /\ grouped \subseteq grouped'
               /\ Cardinality(grouped') = Cardinality(grouped) + 1 ]_vars
    /\ [][ (gpc = "grow" /\ gpc' = "gp_loop") =>
               /\ already_grouped \subseteq already_grouped'
               /\ Head(group_idxs) \in already_grouped' \ already_grouped ]_vars
    /\ [](gpc = "grow" =>
               Len(group_idxs) <= Cardinality(seeds[Len(seeds)].ungrouped))
    /\ [][ (gpc = "gp_loop" \/ gpc = "grow") =>
               /\ LoopRank' >= 0
               /\ LoopRank > LoopRank' ]_vars

\* group_polygons has returned a group that took three passes to grow
C11_Witness ==
    /\ gpc = "gp_done"
    /\ \E g \in 1..Len(groups) : Len(groups[g]) = 3

\* C12: classify_seams terminates; it makes the passes for the orders 1, 2,
\* ... until every segment is classified or the pass for order 10 has been
\* made, assigns no order above 10, and a segment unclassified at the cap
\* has no entry in the returned mapping.
C12_CappedClassification ==
    /\ <>(gpc = "cs_done")
    /\ [](\A i \in Keys(seam_orders) :
              i \in 0..(Len(lines) - 1) /\ seam_orders[i] \in 0..10)
    /\ [](current_order <= 11)
    /\ [](gpc = "cs_done" =>
              \/ Keys(seam_orders) = 0..(Len(lines) - 1)
              \/ current_order = 11)

\* classify_seams has returned at the cap, a segment left unclassified
C12_Witness ==
    /\ gpc = "cs_done"
    /\ current_order = 11
    /\ \E i \in 0..(Len(lines) - 1) : i \notin Keys(seam_orders)
    /\ Keys(seam_orders) # {}

\* page k takes the shape at hand by the rule of _place_next
Accepts(k) ==
    place_next(PageBox(config), CurrentItem.idx, CurrentItem.poly, CurrentItem.angle,
               pages[k]) # {}

\* C13: layout_groups assigns pages first-fit.  A step that places the shape
\* at hand either appends a placement found by _place_next to the first
\* page, in creation order, that accepts it and leaves the other pages as
\* they are, or, no page accepting it, appends a new page that holds the
\* shape placed by _place_first.
C13_FirstFit ==
    [][ next_i' = next_i + 1 =>
          \/ \E k \in 1..Len(pages) :
                /\ Accepts(k)
                /\ \A j \in 1..(k - 1) : ~Accepts(j)
                /\ Len(pages') = Len(pages)
                /\ \A j \in 1..Len(pages) : j # k => pages'[j] = pages[j]
                /\ \E pl \in place_next(PageBox(config), CurrentItem.idx, CurrentItem.poly,
                                        CurrentItem.angle, pages[k]) :
                       pages'[k] = Append(pages[k], pl)
          \/ /\ \A k \in 1..Len(pages) : ~Accepts(k)
             /\ pages' = Append(pages, << place_first(PageBox(config), CurrentItem.idx,
                                                      CurrentItem.poly, CurrentItem.angle) >>)
      ]_vars

\* the third shape processed went to the first of two pages
C13_Witness ==
    /\ lpc = "lg_done"
    /\ Len(pages) = 2
    /\ Len(pages[1]) = 2
    /\ pages[1][2].group_idx = to_pack[3].idx

\* the area of the seam-allowance shape of the k-th tuple of to_pack
InputArea(k) == RectArea(seam_allowances[to_pack[k].idx + 1])

\* C14: the list prepare_packing_inputs returns holds every group once, in
\* the order of non-increasing area of the seam-allowance shapes, shapes of
\* equal area in the order of the input mapping; layout_groups has placed
\* exactly the groups of the tuples it has gone through, in that order.
C14_LargestFirst ==
    lpc \in { "lg_loop", "lg_raised", "lg_done" } =>
        /\ Len(to_pack) = Len(seam_allowances)
        /\ { to_pack[k].idx : k \in 1..Len(to_pack) } = 0..(Len(seam_allowances) - 1)
        /\ \A k, l \in 1..Len(to_pack) :
               k < l => \/ InputArea(k) > InputArea(l)
                        \/ (InputArea(k) = InputArea(l) /\ to_pack[k].idx < to_pack[l].idx)
        /\ \A k \in 1..Len(to_pack) :
               Cardinality(PlacementsOf(pages, to_pack[k].idx)) = IF k <= next_i THEN 1 ELSE 0

\* three shapes, two of one area given before a larger one, all processed
C14_Witness ==
    /\ lpc = "lg_done"
    /\ Len(to_pack) = 3
    /\ to_pack[1].idx = 2
    /\ InputArea(2) = InputArea(3)
    /\ InputArea(1) > InputArea(2)
    /\ seam_allowances[1] # seam_allowances[2]

\* C15: collinear-point reduction is idempotent: applied to its own result,
\* with the same tolerance, it returns the ring of that result.
C15_Idempotent == rpc = "rc_twice" => twice = once

(***************************************************************************)
(* C16.  Every value current_shape takes while a group grows, the seed     *)
(* polygon at the start and the shape after each merge, is convex by the   *)
(* measure of is_concave: its hull area exceeds its own area by no more    *)
(* than the concavity tolerance.                                           *)
(***************************************************************************)
ShapeOf(r) == [ pts |-> Vertices(r), area2 |-> Area2(r) ]

C16_ShapeConvex == gpc = "grow" => ~is_concave(ShapeOf(current_shape))

(***************************************************************************)
(* C17.  The order computed for a polygon is the greatest order of the     *)
(* classified segments that lie along one of its edges: segments whose two *)
(* endpoints are collinear with the edge, or whose line holds both         *)
(* endpoints of the edge, within the tolerance.  It is -1 when no segment  *)
(* lies along an edge or none of those that do has an order.               *)
(***************************************************************************)
AlongEdge(p, i) ==
    \E e \in Range(RingEdges(polygons[p])) :
        \/ \A q \in Range(lines[i + 1]) : collinear(e[1], e[2], q, TauOrder)
        \/ \A q \in Range(e) : collinear(lines[i + 1][1], lines[i + 1][2], q, TauOrder)

ClassifiedAlong(p) ==
    { i \in Keys(seam_orders) : i < Len(lines) /\ AlongEdge(p, i) }

C17_MaxSeamOrder ==
    gpc \in { "gp_loop", "grow", "gp_done" } =>
        \A p \in 1..Len(polygons) :
            IF ClassifiedAlong(p) = {}
            THEN polygon_orders[p] = -1
            ELSE /\ \E i \in ClassifiedAlong(p) : polygon_orders[p] = seam_orders[i]
                 /\ \A i \in ClassifiedAlong(p) : seam_orders[i] <= polygon_orders[p]

\* a polygon with segments of orders 0, 1 and 2 along its edges, and a
\* polygon of a smaller order in the same input
C17_Witness ==
    /\ gpc = "gp_loop"
    /\ \E p \in 1..Len(polygons) :
        /\ polygon_orders[p] = 2
        /\ { seam_orders[i] : i \in ClassifiedAlong(p) } = { 0, 1, 2 }
    /\ \E p \in 1..Len(polygons) :
        /\ polygon_orders[p] < 2
        /\ \E i \in Keys(seam_orders) : seam_orders[i] = 2 /\ ~AlongEdge(p, i)

(***************************************************************************)
(* C18.  The list of groups does not depend on the order in which the      *)
(* neighbour sets are enumerated: in every pass of the growth loop the     *)
(* candidate that is merged is the same for every enumeration order, so    *)
(* that group_idxs, and with it the list returned, is a function of the    *)
(* polygons and the segments alone.                                        *)
(***************************************************************************)
\* the candidates that come first in the scan under some enumeration order
FirstMergeable ==
    { nb \in Candidates :
        /\ Mergeable(nb)
        /\ \A c \in Candidates : Mergeable(c) => DiscoveryRank(nb) <= DiscoveryRank(c) }

C18_Deterministic == gpc = "grow" => Cardinality(FirstMergeable) <= 1

(***************************************************************************)
(* C19.  Zero polygons are not an error: with an empty polygon list and    *)
(* any segment list, group_polygons does not raise and returns the empty   *)
(* list of groups.                                                         *)
(***************************************************************************)
C19_ZeroPolygons ==
    polygons = << >> =>
        /\ gpc # "gp_raised"
        /\ gpc = "gp_done" => groups = << >>

(***************************************************************************)
(* C20.  Four equal squares in a 2 x 2 grid, in any order of the list.     *)
(* C20_SingleGroup: group_polygons returns one group holding all four      *)
(* indices.                                                                *)
(* C20_TwoPairs: group_polygons returns two groups of two squares each,    *)
(* the two squares of a group sharing a full edge: after the first merge   *)
(* no remaining square has an edge equal to an edge of the merged          *)
(* rectangle.                                                              *)
(***************************************************************************)
IsGrid == Len(polygons) = 4 /\ Range(polygons) = GridSquares

C20_SingleGroup ==
    (IsGrid /\ gpc = "gp_done") =>
        /\ Len(groups) = 1
        /\ Range(groups[1]) = 0..3

C20_TwoPairs ==
    (IsGrid /\ gpc = "gp_done") =>
        /\ Len(groups) = 2
        /\ Range(groups[1]) \cup Range(groups[2]) = 0..3
        /\ \A g \in 1..2 :
            /\ Len(groups[g]) = 2
            /\ find_exact_full_shared_edge(Poly(groups[g][1]), Poly(groups[g][2]))

\* the grid grouped, with segments given, the first square of the list
\* paired with a square other than the second of the list
C20_Witness ==
    /\ IsGrid /\ gpc = "gp_done"
    /\ lines # << >>
    /\ Len(groups) = 2
    /\ groups[1] \in { << 0, 2 >>, << 0, 3 >> }

(***************************************************************************)
(* C21.  For the square diagram whose segments are its four boundary edges *)
(* and one diagonal, classify_seams gives order 0 to the four boundary     *)
(* segments and order 1 to the diagonal.                                   *)
(***************************************************************************)
IsCrossSquare == bounding_box = SquareBox /\ lines \in CrossSeamInputs

Diagonal == << <<0, 0>>, <<8, 8>> >>

C21_CrossSeamOrders ==
    (IsCrossSquare /\ gpc = "cs_done") =>
        \A i \in 0..(Len(lines) - 1) :
            /\ i \in Keys(seam_orders)
            /\ seam_orders[i] = IF lines[i + 1] = Diagonal THEN 1 ELSE 0

(***************************************************************************)
(* C22.  Twenty equal squares of 6 x 6 units with an inter-piece margin of *)
(* 0.1 on a page of 8.5 x 11 inches at 1 unit per inch: layout_groups      *)
(* raises nothing and returns more than one page, and the pages hold 20    *)
(* placements in all.                                                      *)
(***************************************************************************)
IsTwenty == config = TwentyConfig /\ seam_allowances = TwentySquares

C22_TwentySquares ==
    IsTwenty =>
        /\ lpc # "lg_raised"
        /\ lpc = "lg_done" =>
            /\ Len(lg_result.pages) > 1
            /\ SumSeq([ k \in 1..Len(lg_result.pages) |-> Len(lg_result.pages[k]) ]) = 20

C22_Witness ==
    /\ IsTwenty /\ lpc = "lg_done"
    /\ Len(lg_result.pages) = 20
    /\ \A k \in 1..20 : Len(lg_result.pages[k]) = 1

(***************************************************************************)
(* C23.  Grouping does not change what it is given.  While                 *)
(* grow_group_from_seed runs, the caller's already_grouped is the set it   *)
(* was at the call and the adjacency mapping and the polygon list do not   *)
(* change; group_polygons changes neither the polygon list nor the segment *)
(* list.                                                                   *)
(***************************************************************************)
\* already_grouped as it was when the seed of the running call was chosen
GroupedAtCall == (0..(Len(polygons) - 1)) \ seeds[Len(seeds)].ungrouped

C23_InputsUnchanged ==
    /\ [](gpc = "grow" => already_grouped = GroupedAtCall)
    /\ [][ gpc = "grow" => (adjacency' = adjacency /\ polygons' = polygons) ]_vars
    /\ [][ polygons' = polygons /\ lines' = lines ]_vars

\* a second call, with a non-empty already_grouped, after it has added a
\* neighbour to its own grouped set
C23_Witness ==
    /\ gpc = "grow"
    /\ already_grouped # {}
    /\ Len(group_idxs) >= 2
    /\ grouped = already_grouped \cup Range(group_idxs)

(***************************************************************************)
(* C24.  A neighbour is added to the group only if, when it is added, it   *)
(* has exactly one edge in common with current_shape (the same two         *)
(* endpoints, in either direction) and the hull of its union with          *)
(* current_shape exceeds the union's area by no more than the concavity    *)
(* tolerance.  A candidate that fails a test is passed over: the one added *)
(* is preceded in the scan only by candidates that fail.                   *)
(***************************************************************************)
CommonEdges(p, q) ==
    { ef \in Range(RingEdges(p)) \X Range(RingEdges(q)) :
        { ef[1][1], ef[1][2] } = { ef[2][1], ef[2][2] } }

UnionKeepsConvex(p, q) ==
    ConcaveTolInv * (HullArea2(Vertices(p) \cup Vertices(q)) - (Area2(p) + Area2(q)))
        <= Area2(p) + Area2(q)

PassesBoth(nb) ==
    /\ Cardinality(CommonEdges(Poly(nb), current_shape)) = 1
    /\ UnionKeepsConvex(current_shape, Poly(nb))

C24_AddedOnlyIfFits ==
    [][ (gpc = "grow" /\ group_idxs' # group_idxs) =>
            LET nb == group_idxs'[Len(group_idxs')]
            IN  /\ nb \in Candidates
                /\ PassesBoth(nb)
                /\ \A c \in Candidates :
                       DiscoveryRank(c) < DiscoveryRank(nb) => ~PassesBoth(c) ]_vars

\* a pass that can add a neighbour while another candidate shares one edge
\* with the shape but would make it concave
C24_Witness ==
    /\ gpc = "grow"
    /\ \E nb \in Candidates : PassesBoth(nb)
    /\ \E c \in Candidates :
        /\ Cardinality(CommonEdges(Poly(c), current_shape)) = 1
        /\ ~UnionKeepsConvex(current_shape, Poly(c))

(***************************************************************************)
(* C25.  A group is maximal when it is finished: at the step at which      *)
(* grow_group_from_seed returns, no polygon outside grouped that is a      *)
(* neighbour of a member of the group has exactly one edge in common with  *)
(* the final current_shape and a union with it within the concavity        *)
(* tolerance, whether or not it was passed over in an earlier pass.        *)
(***************************************************************************)
NeighboursOfGroup ==
    { p \in 0..(Len(polygons) - 1) :
        p \notin grouped /\ \E k \in 1..Len(group_idxs) : p \in adjacency[group_idxs[k]] }

C25_MaximalGroup ==
    [][ (gpc = "grow" /\ gpc' = "gp_loop") =>
            \A p \in NeighboursOfGroup : ~PassesBoth(p) ]_vars

\* a group of two or more about to be returned while a neighbour of its
\* seed, which the seed alone could have taken, is left out
C25_Witness ==
    /\ gpc = "grow"
    /\ Len(group_idxs) >= 2
    /\ \A p \in NeighboursOfGroup : ~PassesBoth(p)
    /\ \E p \in NeighboursOfGroup :
        /\ p \in adjacency[group_idxs[1]]
        /\ Cardinality(CommonEdges(Poly(p), Poly(group_idxs[1]))) = 1
        /\ UnionKeepsConvex(Poly(group_idxs[1]), Poly(p))

(***************************************************************************)
(* C26.  Every group is an ordered, connected sequence: it starts with its *)
(* seed, a polygon added goes to its end and the group returned is the     *)
(* sequence grown, and every element after the first is a neighbour, in    *)
(* the adjacency mapping, of an element before it.                         *)
(***************************************************************************)
ConnectedSequence(g) ==
    \A k \in 2..Len(g) : \E m \in 1..(k - 1) : g[k] \in adjacency[g[m]]

C26_OrderedConnected ==
    /\ [](gpc = "grow" =>
            /\ group_idxs[1] = seeds[Len(seeds)].seed
            /\ ConnectedSequence(group_idxs))
    /\ [](gpc \in { "gp_loop", "grow", "gp_done" } =>
            \A g \in 1..Len(groups) :
                /\ groups[g][1] = seeds[g].seed
                /\ ConnectedSequence(groups[g]))
    /\ [][ (gpc = "grow" /\ gpc' = "grow") =>
            \E x \in 0..(Len(polygons) - 1) : group_idxs' = Append(group_idxs, x) ]_vars
    /\ [][ (gpc = "grow" /\ gpc' = "gp_loop") => groups' = Append(groups, group_idxs) ]_vars

\* a group of three whose last element is a neighbour of the second only
C26_Witness ==
    /\ gpc = "gp_done"
    /\ \E g \in 1..Len(groups) :
        /\ Len(groups[g]) = 3
        /\ groups[g][3] \notin adjacency[groups[g][1]]
        /\ groups[g][3] \in adjacency[groups[g][2]]

(***************************************************************************)
(* C27.  What _place_next returns for a page is one of the candidates      *)
(* generated over the eight rotations, of the least score (hull area of    *)
(* the shapes on the page with the candidate), and of the earliest         *)
(* rotation among those of the least score; it returns None exactly when   *)
(* no rotation gives a candidate.  A page the loop has passed over is one  *)
(* for which it returned None.                                             *)
(***************************************************************************)
CandidatesOn(k) ==
    UNION { candidate_placements_for_rotation(PageBox(config), CurrentItem.idx,
                CurrentItem.poly, CurrentItem.angle, pages[k], NextAngles[a]) :
            a \in 1..Len(NextAngles) }

ScoreOn(k, c) == score_placements(Append(pages[k], c))

OrderOf(i) == polygon_orders[i + 1]

C28_SeedOrdersDescend ==
    gpc \in { "gp_loop", "grow", "gp_done" } =>
        /\ \A g \in 1..Len(seeds) :
               \A i \in seeds[g].ungrouped : OrderOf(i) <= OrderOf(seeds[g].seed)
        /\ \A g \in 1..(Len(seeds) - 1) :
               OrderOf(seeds[g + 1].seed) <= OrderOf(seeds[g].seed)
        /\ \A g \in 1..Len(groups) : groups[g][1] = seeds[g].seed
        /\ \A g \in 1..(Len(groups) - 1) :
               OrderOf(groups[g + 1][1]) <= OrderOf(groups[g][1])

\* groups returned whose seeds have different orders, the first seed not
\* being the first polygon of the list
C28_Witness ==
    /\ gpc = "gp_done"
    /\ Len(groups) >= 2
    /\ groups[1][1] # 0
    /\ OrderOf(groups[1][1]) > OrderOf(groups[Len(groups)][1])

(***************************************************************************)
(* C29.  The allow_rotate flag has no effect on nesting.  Whatever its     *)
(* value, each step of layout_groups is the step computed from the whole   *)
(* rotation lists: the shape goes to the first page that has a candidate   *)
(* in one of the eight rotations, as a candidate of least score and        *)
(* earliest rotation; with no such page it opens a page in the first of    *)
(* the four rotations that fits, and the error is raised only when none     *)
(* fits.  Two runs that differ in the flag alone therefore take the same   *)
(* steps and return the same pages.                                        *)
(***************************************************************************)
FittingRotations ==
    SelectSeq(FirstAngles, LAMBDA a : FirstFits(PageBox(config), CurrentItem.poly, a))

BestOn(k) ==
    { pl \in CandidatesOn(k) :
        \A c \in CandidatesOn(k) :
            \/ ScoreOn(k, pl) < ScoreOn(k, c)
            \/ ScoreOn(k, pl) = ScoreOn(k, c) /\ pl.rotation <= c.rotation }

PlacedCount(pgs) == SumSeq([ k \in 1..Len(pgs) |-> Len(pgs[k]) ])

C30_AppendOnly ==
    /\ [][ /\ Len(pages') >= Len(pages)
           /\ \A k \in 1..Len(pages) :
                  /\ Len(pages'[k]) >= Len(pages[k])
                  /\ SubSeq(pages'[k], 1, Len(pages[k])) = pages[k]
           /\ Len(pages') <= Len(pages) + 1
           /\ Len(pages') = Len(pages) + 1 => Len(pages'[Len(pages')]) = 1
           /\ PlacedCount(pages') <= PlacedCount(pages) + 1 ]_vars
    /\ [](\A k \in 1..Len(pages) : Len(pages[k]) >= 1)
    /\ [](Len(pages) <= next_i)

\* three shapes processed: a page opened for the second, the third put on
\* a page after the shapes already there
C30_Witness ==
    /\ lpc = "lg_loop"
    /\ next_i = 3
    /\ Len(pages) = 2
    /\ \E k \in 1..2 :
        /\ Len(pages[k]) = 2
        /\ pages[k][2].group_idx = to_pack[3].idx

====
